---- MODULE Spec2Model ----
(***************************************************************************)
(* The prompt pool of the translation site: CSVPromptManager               *)
(* (src/app/services/csv_prompt_manager.py) keeps a pool of sentences      *)
(* drawn from a CSV dataset in one JSON cache file.  Every web request     *)
(* constructs a fresh manager (src/app/routes/main.py:75, :301,            *)
(* src/app/routes/admin.py:115, :172), so a manager lives for exactly one  *)
(* call: its _used_csv_indices starts empty and is set by load_cache.      *)
(*                                                                         *)
(* The timestamps (last_updated, last_refill, date_generated) and the      *)
(* constant fields category, source and csv_file are left out: no          *)
(* operation reads them.  csv_used_indices, which the code stores as       *)
(* list(set), is kept as a set.                                            *)
(***************************************************************************)
EXTENDS Integers, Sequences, FiniteSets, Bags, TLC

\* ------------------------------------------------------------------ bounds
MaxRows == 2          \* longest dataset explored (sentences that pass the filter)
MaxMinCache == 2      \* largest MIN_CACHE_SIZE explored
MaxBatch == 2         \* largest PROMPT_BATCH_SIZE explored
MaxCalls == 2         \* calls each concurrent requester makes

VARIABLES
    csv_rows,         \* self._csv_rows: the loaded sentences, as text numbers
    min_cache_size,   \* self.min_cache_size
    batch_size,       \* self.batch_size
    cache_file,       \* the cache file: [status, data]
    last,             \* the call that finished last: [op, res]
    handed,           \* id -> how often it was handed out since its last return
    ever_used,        \* every dataset index a saved cache file has listed as used
    pc,               \* concurrent requests: where each one stands in its call
    calls,            \* concurrent requests: the calls each has started
    loc,              \* concurrent requests: each manager's local state
    holders,          \* id -> the requesters handed it since its last return
    db,               \* the database: [prompts, translations, coverage]
    csv_file          \* the CSV dataset file: [status, rows]

vars == <<csv_rows, min_cache_size, batch_size, cache_file, last, handed, ever_used,
          pc, calls, loc, holders, db, csv_file>>

\* ----------------------------------------------------------------- helpers
Max(a, b) == IF a >= b THEN a ELSE b
Min(a, b) == IF a <= b THEN a ELSE b
Range(s) == {s[i] : i \in 1..Len(s)}
InSeq(x, s) == \E i \in 1..Len(s) : s[i] = x

\* list.remove(x): drops the first occurrence of x
RemoveFirst(s, x) ==
    LET i == CHOOSE k \in 1..Len(s) : s[k] = x /\ \A j \in 1..(k-1) : s[j] # x
    IN  SubSeq(s, 1, i-1) \o SubSeq(s, i+1, Len(s))

\* The sentences of a dataset are numbered by first occurrence: two rows carry
\* the same number exactly when they hold the same text.
Datasets ==
    UNION {{d \in [1..n -> 1..n] :
              \A i \in 1..n : d[i] <= 1 + (IF i = 1 THEN 0
                   ELSE CHOOSE m \in 1..n : /\ \E j \in 1..(i-1) : d[j] = m
                                            /\ \A j \in 1..(i-1) : d[j] <= m)}
           : n \in 0..MaxRows}

\* _load_csv_data: the column 'English' of the file, stripped, the sentences
\* of more than 10 characters kept.  Text number 0 is a sentence of 10
\* characters, every other text is longer.  A file that cannot be opened or
\* read ("missing", "unreadable") raises inside the try: the except branch
\* logs, sets _csv_rows to [] and the empty list is returned.  The result
\* is [rows, raised], raised telling whether the call ends in an exception.
TextLen(text) == IF text = 0 THEN 10 ELSE 11

_load_csv_data(source) ==
    IF source.status = "ok"
    THEN [rows |-> SelectSeq(source.rows, LAMBDA english_text : TextLen(english_text) > 10),
          raised |-> FALSE]
    ELSE [rows |-> <<>>, raised |-> FALSE]

\* a readable file whose sentences are all kept
SourceOf(rows) == [status |-> "ok", rows |-> rows]

\* The files explored: readable ones of up to MaxRows sentences, some of
\* them too short, and a file that is missing or cannot be read.
Sources ==
    {SourceOf(rows) : rows \in
        {r \in UNION {[1..n -> 0..n] : n \in 0..MaxRows} :
            SelectSeq(r, LAMBDA english_text : TextLen(english_text) > 10) \in Datasets}}
    \cup {[status |-> s, rows |-> <<>>] : s \in {"missing", "unreadable"}}

\* hashlib.md5(text).hexdigest()[:12]: a function of the text alone.  The
\* digest of text t is the number 100 + t; 0 is Python's None.
None == 0
_generate_prompt_id(text) == 100 + text

\* The ids a caller can pass: those of the dataset's sentences and the id of
\* one text (number 0) that is in no dataset.
PromptIds ==
    {_generate_prompt_id(csv_rows[i]) : i \in 1..Len(csv_rows)} \cup {_generate_prompt_id(0)}
AllIds == {_generate_prompt_id(t) : t \in 0..(MaxRows + 1)}

_create_prompt_object(english_text, csv_index) ==
    [id |-> _generate_prompt_id(english_text), text |-> english_text,
     usage_count |-> 0, csv_index |-> csv_index]

_create_default_cache ==
    [prompts |-> <<>>, used_prompts |-> <<>>,
     metadata |-> [total_generated |-> 0, total_used |-> 0,
                   csv_total_rows |-> Len(csv_rows), csv_used_indices |-> {}]]

NoFile == [status |-> "missing", data |-> _create_default_cache]

\* Mutant: line 101 forgotten, the loaded indices never reach the manager.
load_cache_keeps_indices(f, used) ==
    IF f.status = "ok"
    THEN [cache |-> f.data, used |-> used]
    ELSE [cache |-> _create_default_cache, used |-> used]

\* Lines 77-98 of load_cache: the keys a parsed file lacks get the values of
\* default_structure, the keys it has are left alone.  (A dictionary is a
\* function on its keys.)
default_structure ==
    [prompts |-> <<>>, used_prompts |-> <<>>,
     metadata |-> [total_generated |-> 0, total_used |-> 0,
                   csv_total_rows |-> 0, csv_used_indices |-> {}]]

\* Variant: a metadata dictionary that lacks a key is replaced as a whole.
merge_defaults_whole_metadata(data, default) ==
    [key \in DOMAIN default \cup DOMAIN data |->
        IF key \notin DOMAIN data THEN default[key]
        ELSE IF key = "metadata" /\ ~(DOMAIN default[key] \subseteq DOMAIN data[key])
        THEN default[key]
        ELSE data[key]]

merge_defaults(data, default) ==
    [key \in DOMAIN default \cup DOMAIN data |->
        IF key \notin DOMAIN data THEN default[key]
        ELSE IF key = "metadata"
        THEN [meta_key \in DOMAIN default[key] \cup DOMAIN data[key] |->
                 IF meta_key \notin DOMAIN data[key] THEN default[key][meta_key]
                 ELSE data[key][meta_key]]
        ELSE data[key]]

\* Whether a dictionary has every key of default_structure.
complete(data, default) ==
    /\ DOMAIN default \subseteq DOMAIN data
    /\ DOMAIN default.metadata \subseteq DOMAIN data.metadata

\* load_cache: the file's content and the manager's _used_csv_indices after
\* the call; the fallback paths (no file, a file that does not parse, an
\* exception on the way) leave _used_csv_indices as it was.
load_cache(f, used) ==
    IF f.status = "ok"
    THEN LET data == IF complete(f.data, default_structure) THEN f.data
                     ELSE merge_defaults(f.data, default_structure)
         IN  [cache |-> data, used |-> data.metadata.csv_used_indices]
    ELSE [cache |-> _create_default_cache, used |-> used]

\* save_cache: open(cache_file, 'w') and json.dump inside try/except.  The
\* outcome w of the write is "ok" (written, True), "unwritten" (the open
\* fails, the file stays as it was, False) or "torn" (json.dump fails after
\* open has truncated the file: it is left unparseable, False).
SaveOutcomes == {"ok", "unwritten", "torn"}

save_cache(f, cache, used, w) ==
    IF w = "ok"
    THEN [file |-> [status |-> "ok",
                    data |-> [cache EXCEPT !.metadata.csv_used_indices = used]],
          res |-> TRUE]
    ELSE IF w = "torn"
    THEN [file |-> [status |-> "corrupt", data |-> _create_default_cache],
          res |-> FALSE]
    ELSE [file |-> f, res |-> FALSE]

\* Mutant: the used_prompts filter dropped.
available_prompts_unfiltered(cache) == cache.prompts

\* [p for p in cache["prompts"] if p["id"] not in cache["used_prompts"]]
available_prompts(cache) ==
    SelectSeq(cache.prompts, LAMBDA p : ~InSeq(p.id, cache.used_prompts))

\* for p in cache["prompts"]: if p["id"] == id: p["usage_count"] ...; break
\* The position of the first entry with this id, 0 when there is none.
FirstWithId(prompts, id) ==
    IF \E i \in 1..Len(prompts) : prompts[i].id = id
    THEN CHOOSE k \in 1..Len(prompts) :
            prompts[k].id = id /\ \A j \in 1..(k-1) : prompts[j].id # id
    ELSE 0

IncUsage(prompts, id) ==
    LET i == FirstWithId(prompts, id)
    IN  IF i = 0 THEN prompts
        ELSE [prompts EXCEPT ![i].usage_count = @ + 1]

\* Mutant: the return leaves usage_count alone.
DecUsage_skipped(prompts, id) == prompts

DecUsage(prompts, id) ==
    LET i == FirstWithId(prompts, id)
    IN  IF i = 0 THEN prompts
        ELSE [prompts EXCEPT ![i].usage_count = Max(0, @ - 1)]

\* ------------------------------------------------------------ refill_cache
\* available_count of refill_cache: len(prompts) - len(used_prompts)
refill_available_count(cache) == Len(cache.prompts) - Len(cache.used_prompts)

\* Mutant: the low-water mark ignored, a batch is all that is asked for.
prompts_needed_batch_only(cache) == batch_size

prompts_needed(cache) ==
    Max(batch_size, min_cache_size - refill_available_count(cache))

\* Mutant: the used indices are not taken out.
available_csv_indices_all(used) == 0..(Len(csv_rows) - 1)

available_csv_indices(used) == (0..(Len(csv_rows) - 1)) \ used

\* How many indices refill_cache samples from a loaded cache: 0 on each of
\* its early returns.
SampleSize(cache, used, force) ==
    IF Len(csv_rows) = 0 THEN 0
    ELSE IF ~force /\ refill_available_count(cache) >= min_cache_size THEN 0
    ELSE Min(prompts_needed(cache), Cardinality(available_csv_indices(used)))

\* random.sample(list(S), k): every sequence of k distinct elements of S
random_sample(S, k) ==
    {s \in [1..k -> S] : \A i, j \in 1..k : i # j => s[i] # s[j]}

\* The samples a refill_cache call on file f may draw.
RefillSamples(f, used0, force) ==
    LET l == load_cache(f, used0)
    IN  random_sample(available_csv_indices(l.used),
                      SampleSize(l.cache, l.used, force))

\* The part of refill_cache between load_cache and save_cache, on the loaded
\* cache and _used_csv_indices: [ret, cache, used], ret one of "no_data",
\* "not_needed", "exhausted", "save" (the call goes on to save_cache).
refill_mutate(cache, used, force, indices_to_use) ==
    IF Len(csv_rows) = 0
    THEN [ret |-> "no_data", cache |-> cache, used |-> used]
    ELSE IF ~force /\ refill_available_count(cache) >= min_cache_size
    THEN [ret |-> "not_needed", cache |-> cache, used |-> used]
    ELSE IF available_csv_indices(used) = {}
    THEN [ret |-> "exhausted", cache |-> cache, used |-> used]
    ELSE LET new_prompts ==
                 [i \in 1..Len(indices_to_use) |->
                     _create_prompt_object(csv_rows[indices_to_use[i] + 1],
                                           indices_to_use[i])]
         IN  [ret |-> "save",
              cache |-> [cache EXCEPT
                           !.prompts = @ \o new_prompts,
                           !.metadata.total_generated = @ + Len(new_prompts)],
              used |-> used \cup Range(indices_to_use)]

\* refill_cache(force) by a manager whose _used_csv_indices is used0:
\* [file, used, res].
refill_cache(f, used0, force, indices_to_use, w) ==
    LET l == load_cache(f, used0)
        m == refill_mutate(l.cache, l.used, force, indices_to_use)
    IN  IF m.ret = "not_needed" THEN [file |-> f, used |-> m.used, res |-> TRUE]
        ELSE IF m.ret = "save"
        THEN LET s == save_cache(f, m.cache, m.used, w)
             IN  [file |-> s.file, used |-> m.used, res |-> s.res]
        ELSE [file |-> f, used |-> m.used, res |-> FALSE]

\* --------------------------------------------------------- get_next_prompt
\* Lines 218-229: the first available prompt is marked used.
serve_mutate(cache) ==
    LET prompt == available_prompts(cache)[1]
    IN  [cache EXCEPT !.used_prompts = Append(@, prompt.id),
                      !.metadata.total_used = @ + 1,
                      !.prompts = IncUsage(@, prompt.id)]

\* Mutant: <= for <.
needs_refill_at_boundary(cache) == Len(available_prompts(cache)) <= min_cache_size

needs_refill(cache) == Len(available_prompts(cache)) < min_cache_size

\* get_next_prompt by a fresh manager: [file, res, refill], res the id of the
\* prompt returned (None for None), refill whether refill_cache was called.
get_next_prompt(f, indices_to_use, wRefill, wServe) ==
    LET l0 == load_cache(f, {})
        refill == needs_refill(l0.cache)
        r == IF refill THEN refill_cache(f, l0.used, FALSE, indices_to_use, wRefill)
             ELSE [file |-> f, used |-> l0.used, res |-> FALSE]
        l1 == IF refill /\ r.res THEN load_cache(r.file, r.used)
              ELSE [cache |-> l0.cache, used |-> r.used]
        avail == available_prompts(l1.cache)
    IN  IF Len(avail) = 0
        THEN [file |-> r.file, res |-> None, refill |-> refill]
        ELSE [file |-> save_cache(r.file, serve_mutate(l1.cache), l1.used, wServe).file,
              res |-> avail[1].id, refill |-> refill]

\* The samples the refill inside a get_next_prompt call on file f may draw.
ServeSamples(f) ==
    IF needs_refill(load_cache(f, {}).cache)
    THEN RefillSamples(f, load_cache(f, {}).used, FALSE)
    ELSE {<<>>}

\* ------------------------------------- mark, return, reset, get_cache_stats
mark_mutate(cache, prompt_id) ==
    [cache EXCEPT !.used_prompts = Append(@, prompt_id),
                  !.metadata.total_used = @ + 1,
                  !.prompts = IncUsage(@, prompt_id)]

mark_prompt_as_used(f, prompt_id, w) ==
    LET l == load_cache(f, {})
    IN  IF ~InSeq(prompt_id, l.cache.used_prompts)
        THEN save_cache(f, mark_mutate(l.cache, prompt_id), l.used, w)
        ELSE [file |-> f, res |-> TRUE]

\* Mutant: the id stays in used_prompts, only the counters go down.
return_mutate_keeps_id(cache, prompt_id) ==
    [cache EXCEPT !.metadata.total_used = Max(0, @ - 1),
                  !.prompts = DecUsage(@, prompt_id)]

\* Variant: the returned entry is taken out of its place and put at the end.
return_mutate_to_back(cache, prompt_id) ==
    LET i == FirstWithId(cache.prompts, prompt_id)
        moved == IF i = 0 THEN cache.prompts
                 ELSE SubSeq(cache.prompts, 1, i - 1)
                      \o SubSeq(cache.prompts, i + 1, Len(cache.prompts))
                      \o <<cache.prompts[i]>>
    IN  [cache EXCEPT !.used_prompts = RemoveFirst(@, prompt_id),
                      !.metadata.total_used = Max(0, @ - 1),
                      !.prompts = DecUsage(moved, prompt_id)]

return_mutate(cache, prompt_id) ==
    [cache EXCEPT !.used_prompts = RemoveFirst(@, prompt_id),
                  !.metadata.total_used = Max(0, @ - 1),
                  !.prompts = DecUsage(@, prompt_id)]

return_prompt_to_pool(f, prompt_id, w) ==
    LET l == load_cache(f, {})
    IN  IF InSeq(prompt_id, l.cache.used_prompts)
        THEN save_cache(f, return_mutate(l.cache, prompt_id), l.used, w)
        ELSE [file |-> f, res |-> TRUE]

reset_mutate(cache) ==
    [cache EXCEPT !.used_prompts = <<>>,
                  !.metadata.total_used = 0,
                  !.prompts = [i \in 1..Len(@) |-> [@[i] EXCEPT !.usage_count = 0]]]

reset_cache(f, w) ==
    LET l == load_cache(f, {})
    IN  save_cache(f, reset_mutate(l.cache), l.used, w)

get_cache_stats(f) ==
    LET cache == load_cache(f, {}).cache
        total_prompts == Len(cache.prompts)
        used_count == Len(cache.used_prompts)
    IN  [total_prompts |-> total_prompts,
         used_prompts |-> used_count,
         available_prompts |-> total_prompts - used_count,
         cache_health |-> IF total_prompts - used_count >= min_cache_size
                          THEN "healthy" ELSE "low"]

\* ----------------------------------------------------------------- actions
\* Scenario A of the specification: three different sentences.
ScenarioA == <<1, 2, 3>>

NoCall == [op |-> "none", res |-> None]

\* Requests served at the same time (threads or worker processes of the web
\* server), each with a manager of its own.
Procs == {"r1", "r2"}
IdleLoc == [op |-> "none", arg |-> None, cache |-> _create_default_cache, used |-> {}]
Requests == <<pc, calls, loc, holders>>
Bool(b) == IF b THEN 1 ELSE 0

\* The database after create_app (src/app/__init__.py:72-76): the tables
\* exist, no prompts, no translations, DomainCoverage rows at 0.  Of the
\* eleven categories of initialize_hybrid_system two are followed, one of the
\* onboarding list and one outside it, with targets scaled down so that a
\* handful of rows moves the percentage.  A table is a sequence of rows, the
\* primary key of a row its position; translations are a bag of
\* [prompt_id, user_id, status] rows (two rows that agree in these are
\* alike to every query of the program).
CategoryOrder == <<"greetings", "health">>
Categories == Range(CategoryOrder)
target_counts == [greetings |-> 2, health |-> 5]

initial_db ==
    [prompts |-> <<>>,
     translations |-> EmptyBag,
     coverage |-> [c \in Categories |->
                      [target_count |-> target_counts[c], current_count |-> 0,
                       completion_percentage |-> 0]]]

Init ==
    /\ db = initial_db
    /\ \/ /\ csv_rows \in Datasets
          /\ min_cache_size \in 1..MaxMinCache
          /\ batch_size \in 1..MaxBatch
       \/ /\ csv_rows = ScenarioA
          /\ min_cache_size = 2
          /\ batch_size = 2
    /\ csv_file = SourceOf(csv_rows)
    /\ cache_file = NoFile
    /\ last = NoCall
    /\ handed = [id \in AllIds |-> 0]
    /\ ever_used = {}
    /\ pc = [p \in Procs |-> "idle"]
    /\ calls = [p \in Procs |-> 0]
    /\ loc = [p \in Procs |-> IdleLoc]
    /\ holders = [id \in AllIds |-> {}]

Settings == <<csv_rows, min_cache_size, batch_size, csv_file>>
Config == <<Settings, db>>

persisted_indices(f) ==
    IF f.status = "ok" THEN f.data.metadata.csv_used_indices ELSE {}

\* A call leaves the file as f ...
Effect(f) ==
    /\ cache_file' = f
    /\ ever_used' = ever_used \cup persisted_indices(f)
    /\ UNCHANGED <<Config, Requests>>

\* ... and reports [op, res].
Finish(f, op, res) == Effect(f) /\ last' = [op |-> op, res |-> res]

\* handed counts up to 2: more than one hand-out is all that matters.
HandOut(h, id) == IF id = None THEN h ELSE [h EXCEPT ![id] = Min(2, @ + 1)]

\* GET /translate (src/app/routes/main.py:75-76): one get_next_prompt call
Do_get_next_prompt(wRefill, wServe) ==
    \E indices_to_use \in ServeSamples(cache_file) :
        LET r == get_next_prompt(cache_file, indices_to_use, wRefill, wServe)
        IN  Finish(r.file, "get_next_prompt", r.res)

\* POST /skip-prompt/<id>, moderation 'reject': one return_prompt_to_pool call
Do_return_prompt_to_pool(prompt_id, w) ==
    LET r == return_prompt_to_pool(cache_file, prompt_id, w)
    IN  Finish(r.file, "return_prompt_to_pool", Bool(r.res))

Do_mark_prompt_as_used(prompt_id, w) ==
    LET r == mark_prompt_as_used(cache_file, prompt_id, w)
    IN  Finish(r.file, "mark_prompt_as_used", Bool(r.res))

\* refill_cache(force): force=True from the admin route (admin.py:173)
Do_refill_cache(force, w) ==
    \E indices_to_use \in RefillSamples(cache_file, {}, force) :
        LET r == refill_cache(cache_file, {}, force, indices_to_use, w)
        IN  Finish(r.file, "refill_cache", Bool(r.res))

Do_reset_cache(w) ==
    LET r == reset_cache(cache_file, w)
    IN  Finish(r.file, "reset_cache", Bool(r.res))

Call_get_next_prompt == Do_get_next_prompt("ok", "ok") /\ UNCHANGED handed
Call_return_prompt_to_pool ==
    \E prompt_id \in PromptIds :
        Do_return_prompt_to_pool(prompt_id, "ok") /\ UNCHANGED handed

Call_mark_prompt_as_used ==
    \E prompt_id \in PromptIds :
        Do_mark_prompt_as_used(prompt_id, "ok") /\ UNCHANGED handed

Call_refill_cache ==
    \E force \in BOOLEAN : Do_refill_cache(force, "ok") /\ UNCHANGED handed
Call_reset_cache == Do_reset_cache("ok") /\ UNCHANGED handed

Next ==
    \/ Call_get_next_prompt
    \/ Call_return_prompt_to_pool
    \/ Call_mark_prompt_as_used
    \/ Call_refill_cache
    \/ Call_reset_cache

\* Sequential calls, every save succeeding.
Spec == Init /\ [][Next]_vars

\* ---- the same calls on the sentences _load_csv_data gets out of any file
InitSource ==
    /\ csv_file \in Sources
    /\ csv_rows = _load_csv_data(csv_file).rows
    /\ min_cache_size \in 1..MaxMinCache
    /\ batch_size \in 1..MaxBatch
    /\ db = initial_db
    /\ cache_file = NoFile
    /\ last = NoCall
    /\ handed = [id \in AllIds |-> 0]
    /\ ever_used = {}
    /\ pc = [p \in Procs |-> "idle"]
    /\ calls = [p \in Procs |-> 0]
    /\ loc = [p \in Procs |-> IdleLoc]
    /\ holders = [id \in AllIds |-> {}]

NextSource ==
    \/ Call_get_next_prompt
    \/ Call_refill_cache
    \/ Call_return_prompt_to_pool

SpecSource == InitSource /\ [][NextSource]_vars

\* ---- the four calls of the serve/return cycle, with the hand-outs recorded
Seq_get_next_prompt ==
    /\ Do_get_next_prompt("ok", "ok")
    /\ handed' = HandOut(handed, last'.res)

Seq_return_prompt_to_pool ==
    \E prompt_id \in PromptIds :
        /\ Do_return_prompt_to_pool(prompt_id, "ok")
        /\ handed' = [handed EXCEPT ![prompt_id] = 0]

Seq_mark_prompt_as_used ==
    \E prompt_id \in PromptIds :
        Do_mark_prompt_as_used(prompt_id, "ok") /\ UNCHANGED handed

Seq_refill_cache ==
    \E force \in BOOLEAN : Do_refill_cache(force, "ok") /\ UNCHANGED handed

NextServeReturn ==
    \/ Seq_get_next_prompt
    \/ Seq_return_prompt_to_pool
    \/ Seq_mark_prompt_as_used
    \/ Seq_refill_cache

SpecServeReturn == Init /\ [][NextServeReturn]_vars

\* ---- sequential calls whose saves may fail (the calls' results are not
\* recorded here)
\* The outcomes worth telling apart: a call that does not reach save_cache
\* has one.
Outcomes(saves) == IF saves THEN SaveOutcomes ELSE {"ok"}
RefillSaves(f, used0, force) ==
    SampleSize(load_cache(f, used0).cache, load_cache(f, used0).used, force) > 0

Fault_get_next_prompt ==
    \E wRefill \in Outcomes(/\ needs_refill(load_cache(cache_file, {}).cache)
                            /\ RefillSaves(cache_file, {}, FALSE)) :
      \E wServe \in SaveOutcomes, indices_to_use \in ServeSamples(cache_file) :
        /\ Effect(get_next_prompt(cache_file, indices_to_use, wRefill, wServe).file)
        /\ UNCHANGED <<last, handed>>

Fault_return_prompt_to_pool ==
    \E prompt_id \in PromptIds :
      \E w \in Outcomes(prompt_id \in Range(load_cache(cache_file, {}).cache.used_prompts)) :
        /\ Effect(return_prompt_to_pool(cache_file, prompt_id, w).file)
        /\ UNCHANGED <<last, handed>>

Fault_mark_prompt_as_used ==
    \E prompt_id \in PromptIds :
      \E w \in Outcomes(prompt_id \notin Range(load_cache(cache_file, {}).cache.used_prompts)) :
        /\ Effect(mark_prompt_as_used(cache_file, prompt_id, w).file)
        /\ UNCHANGED <<last, handed>>

Fault_refill_cache ==
    \E force \in BOOLEAN :
      \E w \in Outcomes(RefillSaves(cache_file, {}, force)) :
        \E indices_to_use \in RefillSamples(cache_file, {}, force) :
          /\ Effect(refill_cache(cache_file, {}, force, indices_to_use, w).file)
          /\ UNCHANGED <<last, handed>>

Fault_reset_cache ==
    \E w \in SaveOutcomes :
        /\ Effect(reset_cache(cache_file, w).file)
        /\ UNCHANGED <<last, handed>>

NextFault ==
    \/ Fault_get_next_prompt
    \/ Fault_return_prompt_to_pool
    \/ Fault_mark_prompt_as_used
    \/ Fault_refill_cache
    \/ Fault_reset_cache

SpecFault == Init /\ [][NextFault]_vars

\* ---- concurrent requests: load_cache, the mutation and save_cache of a call
\* are separate steps on the one cache file; nothing in the code locks it.
Goto(p, where, l) ==
    /\ pc' = [pc EXCEPT ![p] = where]
    /\ loc' = [loc EXCEPT ![p] = l]

Return(p) == Goto(p, "idle", IdleLoc)

\* a requester enters a call
Enter(p) ==
    /\ pc[p] = "idle"
    /\ calls[p] < MaxCalls
    /\ calls' = [calls EXCEPT ![p] = @ + 1]

Write(f) ==
    /\ cache_file' = f
    /\ ever_used' = ever_used \cup persisted_indices(f)

Quiet == UNCHANGED <<cache_file, ever_used>>

\* ---- get_next_prompt called over and over by one requester on a fresh
\* cache, once more than there are sentences; calls counts the calls and
\* handed the times each id was returned
Drain_get_next_prompt ==
    /\ calls["r1"] <= Len(csv_rows)
    /\ calls' = [calls EXCEPT !["r1"] = @ + 1]
    /\ \E indices_to_use \in ServeSamples(cache_file) :
          LET r == get_next_prompt(cache_file, indices_to_use, "ok", "ok")
          IN  /\ Write(r.file)
              /\ last' = [op |-> "get_next_prompt", res |-> r.res]
              /\ handed' = HandOut(handed, r.res)
    /\ UNCHANGED <<Config, pc, loc, holders>>

NextDrain == Drain_get_next_prompt

SpecDrain == InitSource /\ [][NextDrain]_vars

\* get_next_prompt, line 199-204: load_cache and the low-water test
Conc_get_load(p) ==
    /\ Enter(p)
    /\ LET l0 == load_cache(cache_file, {})
       IN  Goto(p, IF needs_refill(l0.cache) THEN "refill_load" ELSE "pick",
                [op |-> "get_next_prompt", arg |-> None,
                 cache |-> l0.cache, used |-> l0.used])
    /\ Quiet /\ UNCHANGED holders

\* refill_cache, line 248-293, called by get_next_prompt (line 206): load_cache,
\* the sampling and the new entries.  An early return sends get_next_prompt
\* to its second load_cache (True) or on with the cache it has (False); on
\* the way to save_cache the manager's copy becomes the refilled cache (the
\* saves of these requests succeed, so the second load_cache follows).
Conc_refill_load(p) ==
    /\ pc[p] = "refill_load" /\ UNCHANGED calls
    /\ LET l == load_cache(cache_file, loc[p].used)
       IN  \E smp \in random_sample(available_csv_indices(l.used),
                                    SampleSize(l.cache, l.used, FALSE)) :
             LET m == refill_mutate(l.cache, l.used, FALSE, smp)
             IN  IF m.ret = "save"
                 THEN Goto(p, "refill_save",
                           [loc[p] EXCEPT !.cache = m.cache, !.used = m.used])
                 ELSE IF m.ret = "not_needed"
                 THEN Goto(p, "reload", [loc[p] EXCEPT !.used = m.used])
                 ELSE Goto(p, "pick", [loc[p] EXCEPT !.used = m.used])
    /\ Quiet /\ UNCHANGED holders

\* POST /admin/refill-cache (admin.py:172-173): refill_cache(force=True)
Conc_admin_refill_load(p) ==
    /\ Enter(p)
    /\ LET l == load_cache(cache_file, {})
       IN  \E smp \in random_sample(available_csv_indices(l.used),
                                    SampleSize(l.cache, l.used, TRUE)) :
             LET m == refill_mutate(l.cache, l.used, TRUE, smp)
             IN  IF m.ret = "save"
                 THEN Goto(p, "refill_save",
                           [op |-> "refill_cache", arg |-> None,
                            cache |-> m.cache, used |-> m.used])
                 ELSE Return(p)
    /\ Quiet /\ UNCHANGED holders

\* refill_cache, line 296: save_cache
Conc_refill_save(p) ==
    /\ pc[p] = "refill_save" /\ UNCHANGED calls
    /\ Write(save_cache(cache_file, loc[p].cache, loc[p].used, "ok").file)
    /\ IF loc[p].op = "get_next_prompt"
       THEN Goto(p, "reload", loc[p])
       ELSE Return(p)
    /\ UNCHANGED holders

\* get_next_prompt, line 208-209: the load_cache after a successful refill
Conc_get_reload(p) ==
    /\ pc[p] = "reload" /\ UNCHANGED calls
    /\ LET l1 == load_cache(cache_file, loc[p].used)
       IN  Goto(p, "pick", [loc[p] EXCEPT !.cache = l1.cache, !.used = l1.used])
    /\ Quiet /\ UNCHANGED holders

\* get_next_prompt, line 214-229: None, or the first available prompt marked
\* used in the manager's copy of the cache
Conc_get_pick(p) ==
    /\ pc[p] = "pick" /\ UNCHANGED calls
    /\ LET avail == available_prompts(loc[p].cache)
       IN  IF Len(avail) = 0
           THEN Return(p)
           ELSE Goto(p, "serve_save",
                     [loc[p] EXCEPT !.arg = avail[1].id,
                                    !.cache = serve_mutate(loc[p].cache)])
    /\ Quiet /\ UNCHANGED holders

\* get_next_prompt, line 232-235: save_cache and the prompt handed to the caller
Conc_get_save(p) ==
    /\ pc[p] = "serve_save" /\ UNCHANGED calls
    /\ Write(save_cache(cache_file, loc[p].cache, loc[p].used, "ok").file)
    /\ holders' = [holders EXCEPT ![loc[p].arg] = @ \cup {p}]
    /\ Return(p)

\* return_prompt_to_pool, line 353-363: load_cache and the un-marking
Conc_return_load(p) ==
    /\ Enter(p)
    /\ \E prompt_id \in PromptIds :
          LET l == load_cache(cache_file, {})
          IN  IF InSeq(prompt_id, l.cache.used_prompts)
              THEN /\ Goto(p, "return_save",
                           [op |-> "return_prompt_to_pool", arg |-> prompt_id,
                            cache |-> return_mutate(l.cache, prompt_id),
                            used |-> l.used])
                   /\ UNCHANGED holders
              ELSE /\ Return(p)
                   /\ holders' = [holders EXCEPT ![prompt_id] = {}]
    /\ Quiet

\* return_prompt_to_pool, line 366: save_cache
Conc_return_save(p) ==
    /\ pc[p] = "return_save" /\ UNCHANGED calls
    /\ Write(save_cache(cache_file, loc[p].cache, loc[p].used, "ok").file)
    /\ holders' = [holders EXCEPT ![loc[p].arg] = {}]
    /\ Return(p)

Others == UNCHANGED <<Config, last, handed>>

NextConc ==
    \/ \E p \in Procs : Conc_get_load(p) /\ Others
    \/ \E p \in Procs : Conc_refill_load(p) /\ Others
    \/ \E p \in Procs : Conc_admin_refill_load(p) /\ Others
    \/ \E p \in Procs : Conc_refill_save(p) /\ Others
    \/ \E p \in Procs : Conc_get_reload(p) /\ Others
    \/ \E p \in Procs : Conc_get_pick(p) /\ Others
    \/ \E p \in Procs : Conc_get_save(p) /\ Others
    \/ \E p \in Procs : Conc_return_load(p) /\ Others
    \/ \E p \in Procs : Conc_return_save(p) /\ Others

SpecConc == Init /\ [][NextConc]_vars

\* One requester fetching prompts while another request refills the pool or
\* returns prompts: every overlap is a get_next_prompt with a refill_cache
\* or a return_prompt_to_pool.
NextServeBeside ==
    \/ Conc_get_load("r1") /\ Others
    \/ Conc_refill_load("r1") /\ Others
    \/ Conc_get_reload("r1") /\ Others
    \/ Conc_get_pick("r1") /\ Others
    \/ Conc_get_save("r1") /\ Others
    \/ Conc_admin_refill_load("r2") /\ Others
    \/ Conc_return_load("r2") /\ Others
    \/ Conc_return_save("r2") /\ Others
    \/ \E p \in Procs : Conc_refill_save(p) /\ Others

SpecServeBeside == Init /\ [][NextServeBeside]_vars

\* ------------------------------------------------------------------ claims
\* What the claims speak of, read off the persisted file.
Persisted == IF cache_file.status = "ok" THEN cache_file.data ELSE _create_default_cache
Content(f) == IF f.status = "ok" THEN f.data ELSE _create_default_cache
UsedIds(cache) == Range(cache.used_prompts)
\* the positions of the entries that are not served
Servable(cache) == {i \in 1..Len(cache.prompts) : cache.prompts[i].id \notin UsedIds(cache)}
AllIndices == 0..(Len(csv_rows) - 1)
UnusedIndices(cache) == AllIndices \ cache.metadata.csv_used_indices
CsvIndices(cache) == {cache.prompts[i].csv_index : i \in 1..Len(cache.prompts)}
\* the usage_count of the first entry with this id, 0 when the pool has none
UsageCount(cache, id) ==
    IF \E i \in 1..Len(cache.prompts) : cache.prompts[i].id = id
    THEN cache.prompts[CHOOSE i \in 1..Len(cache.prompts) :
             cache.prompts[i].id = id /\ \A j \in 1..(i-1) : cache.prompts[j].id # id].usage_count
    ELSE 0

\* C1: however concurrent get_next_prompt calls interleave, an id that is
\* marked served is held by at most one requester.
C1_NoDoubleServe ==
    \A id \in UsedIds(Persisted) : Cardinality(holders[id]) <= 1

\* C2: once a get_next_prompt and a concurrent refill_cache or
\* return_prompt_to_pool have finished, the file shows the effect of each: every id handed out and not returned is in used_prompts, every
\* returned id is out of it, and every index a refill has saved is in
\* csv_used_indices with its entry in prompts.
AllDone == \A p \in Procs : pc[p] = "idle"

C2_NoLostUpdate ==
    AllDone =>
        /\ \A id \in AllIds : holders[id] # {} => id \in UsedIds(Persisted)
        /\ \A id \in UsedIds(Persisted) : holders[id] # {}
        /\ ever_used \subseteq Persisted.metadata.csv_used_indices
        /\ ever_used \subseteq CsvIndices(Persisted)

\* C3: in sequential runs of get_next_prompt, return_prompt_to_pool,
\* mark_prompt_as_used and refill_cache, no id is handed out a second time
\* before return_prompt_to_pool was called for it.
C3_NoReServe == \A id \in PromptIds : handed[id] <= 1

\* Two different ids are out at once: get_next_prompt served twice, the
\* second time passing over the id that was still served.
C3_Witness ==
    \E a, b \in PromptIds :
        a # b /\ handed[a] = 1 /\ handed[b] = 1 /\ {a, b} \subseteq UsedIds(Persisted)

\* C4: the entries get_next_prompt can pick plus the ids in used_prompts
\* make up the pool: available_count + served_count = len(prompts).
C4_Conservation ==
    Cardinality(Servable(Persisted)) + Len(Persisted.used_prompts) = Len(Persisted.prompts)

\* C5 as stated: the persisted csv_used_indices never loses an index that a
\* saved file has listed, also when load_cache falls back to the default
\* state, and no two pool entries carry the same csv_index.
NoIndexTwice(cache) ==
    \A i, j \in 1..Len(cache.prompts) :
        i # j => cache.prompts[i].csv_index # cache.prompts[j].csv_index

C5_Original ==
    /\ cache_file.status = "ok" => ever_used \subseteq Persisted.metadata.csv_used_indices
    /\ NoIndexTwice(Persisted)

\* C5 as amended: a call that finds the cache file readable leaves
\* csv_used_indices a superset of what it found and admits no index of it
\* (the fallback of load_cache restarts the set from empty); no two pool
\* entries ever carry the same csv_index.
C5_Amended ==
    [][/\ (cache_file.status = "ok" /\ cache_file'.status = "ok") =>
            /\ Persisted.metadata.csv_used_indices
                   \subseteq Persisted'.metadata.csv_used_indices
            /\ (CsvIndices(Persisted') \ CsvIndices(Persisted))
                   \cap Persisted.metadata.csv_used_indices = {}
       /\ NoIndexTwice(Persisted')]_vars

\* After a fallback the file lists fewer indices than were once persisted,
\* and a refill has admitted entries again.
C5_Witness ==
    /\ cache_file.status = "ok"
    /\ ~(ever_used \subseteq Persisted.metadata.csv_used_indices)
    /\ Len(Persisted.prompts) > 0

\* C6: when every dataset index is admitted and no entry is available, a
\* get_next_prompt call returns None and leaves the cache file as it is.
Exhausted == UnusedIndices(Persisted) = {} /\ Servable(Persisted) = {}

C6_ExhaustionTerminal ==
    [][(Exhausted /\ Call_get_next_prompt) =>
            (last'.res = None /\ cache_file' = cache_file)]_vars

\* The pool is drained (entries exist, all served, nothing left to admit) and
\* get_next_prompt has just returned None.
C6_Witness ==
    /\ Exhausted
    /\ Len(Persisted.prompts) > 0
    /\ last = [op |-> "get_next_prompt", res |-> None]

\* C7: return_prompt_to_pool twice in a row leaves the same file and the same
\* True result as once; for an id that is not served it changes nothing.
C7_ReturnIdempotent ==
    \A id \in PromptIds :
        LET once == return_prompt_to_pool(cache_file, id, "ok")
            twice == return_prompt_to_pool(once.file, id, "ok")
        IN  /\ once.res /\ twice.res
            /\ twice.file = once.file
            /\ id \notin UsedIds(Persisted) => once.file = cache_file

\* A served id has just been returned while another id is still served.
C7_Witness ==
    /\ last = [op |-> "return_prompt_to_pool", res |-> 1]
    /\ \E i \in 1..Len(Persisted.prompts) :
          /\ Persisted.prompts[i].id \notin UsedIds(Persisted)
          /\ Persisted.prompts[i].usage_count = 0
    /\ Persisted.metadata.total_used > 0

\* C8 as stated: get_next_prompt raises the served entry's usage_count and
\* total_used by 1 and marks it served; returning the id then restores the
\* entry's usage_count and availability, total_used, and the available and
\* used numbers of get_cache_stats to what they were before the serve.
ServeThenReturn(f0, f1, id, admitted) ==
    LET pre == Content(f0)
        post == Content(f1)
        ret == return_prompt_to_pool(f1, id, "ok")
        back == Content(ret.file)
    IN  /\ UsageCount(post, id) = UsageCount(pre, id) + 1
        /\ post.metadata.total_used = pre.metadata.total_used + 1
        /\ id \in UsedIds(post)
        /\ ret.res
        /\ id \notin UsedIds(back)
        /\ UsageCount(back, id) = UsageCount(pre, id)
        /\ back.metadata.total_used = pre.metadata.total_used
        /\ get_cache_stats(ret.file).used_prompts = get_cache_stats(f0).used_prompts
        /\ get_cache_stats(ret.file).available_prompts
               = get_cache_stats(f0).available_prompts + admitted

C8_Original ==
    [][(Call_get_next_prompt /\ last'.res # None) =>
            ServeThenReturn(cache_file, cache_file', last'.res, 0)]_vars

\* C8 as amended: the same, except that the available number comes back to
\* its pre-serve value plus the number of entries the serve's own refill
\* admitted (the pre-serve value itself when the serve admitted none).
C8_Amended ==
    [][(Call_get_next_prompt /\ last'.res # None) =>
            ServeThenReturn(cache_file, cache_file', last'.res,
                            Len(Persisted'.prompts) - Len(Persisted.prompts))]_vars

\* A serve has just handed out an entry while another id was already served.
C8_Witness ==
    /\ last.op = "get_next_prompt" /\ last.res # None
    /\ UsageCount(Persisted, last.res) = 1
    /\ Persisted.metadata.total_used = 2

\* C9: get_next_prompt calls refill_cache exactly when fewer than
\* min_cache_size entries are available, and serves the first available
\* entry of the pool as that refill left it; with three different
\* sentences, min_cache_size = 2 and batch_size = 2 the first call admits
\* two sentences and serves one, the second admits the third and serves.
FirstServable(cache) ==
    cache.prompts[CHOOSE i \in Servable(cache) : \A j \in Servable(cache) : i <= j].id

C9_RefillBeforeServe ==
    \A smp \in ServeSamples(cache_file) :
        LET r == get_next_prompt(cache_file, smp, "ok", "ok")
            pre == Persisted
            post == Content(r.file)
            low == Cardinality(Servable(pre)) < min_cache_size
            pool == [post EXCEPT !.used_prompts = pre.used_prompts]
        IN  /\ r.refill <=> low
            /\ ~low => Len(post.prompts) = Len(pre.prompts)
            /\ Len(smp) > 0 =>
                  /\ low
                  /\ Len(post.prompts) = Len(pre.prompts) + Len(smp)
                  /\ \A i \in 1..Len(smp) :
                        post.prompts[Len(pre.prompts) + i].csv_index = smp[i]
            /\ r.res # None => r.res = FirstServable(pool)
            /\ r.res = None => Servable(pool) = {}
            /\ (csv_rows = ScenarioA /\ min_cache_size = 2 /\ batch_size = 2
                    /\ cache_file = NoFile) =>
                  /\ Len(post.prompts) = 2
                  /\ Len(post.used_prompts) = 1
                  /\ Cardinality(Servable(post)) = 1
                  /\ r.res # None
                  /\ \A smp2 \in ServeSamples(r.file) :
                        LET r2 == get_next_prompt(r.file, smp2, "ok", "ok")
                        IN  /\ r2.refill
                            /\ Len(smp2) = 1
                            /\ Len(r2.file.data.prompts) = 3
                            /\ CsvIndices(r2.file.data) = {0, 1, 2}
                            /\ r2.res # None /\ r2.res # r.res

\* Scenario A after its second call: all three sentences admitted, two served.
C9_Witness ==
    /\ csv_rows = ScenarioA /\ min_cache_size = 2 /\ batch_size = 2
    /\ last.op = "get_next_prompt" /\ last.res # None
    /\ Len(Persisted.prompts) = 3
    /\ Len(Persisted.used_prompts) = 2
    /\ Persisted.metadata.total_used = 2

FailedSaves == SaveOutcomes \ {"ok"}

C11_RefillRollback ==
    /\ \A force \in BOOLEAN, w \in FailedSaves :
         \A smp \in RefillSamples(cache_file, {}, force) :
           Len(smp) > 0 =>
             LET r == refill_cache(cache_file, {}, force, smp, w)
             IN  /\ ~r.res
                 /\ r.file = cache_file
                 /\ r.used = load_cache(cache_file, {}).used
    /\ \A w \in FailedSaves :
         \A smp \in ServeSamples(cache_file) :
           LET r == get_next_prompt(cache_file, smp, w, "ok")
           IN  Range(smp) \cap Content(r.file).metadata.csv_used_indices = {}

\* C12: whenever get_next_prompt returns a prompt, the cache file lists its
\* id in used_prompts, whatever the outcome of the saves of the call.
C12_PersistedBeforeReturn ==
    \A wRefill, wServe \in SaveOutcomes :
      \A smp \in ServeSamples(cache_file) :
        LET r == get_next_prompt(cache_file, smp, wRefill, wServe)
        IN  r.res # None => r.res \in UsedIds(Content(r.file))

\* ---------------------------------------------------------------- database
\* Requesters are the users of the site; get_or_create_user gives each a
\* User row before any other query of a request.
Users == Procs

\* DomainCoverage.update_coverage: current_count / target_count * 100.  The
\* targets and counts explored divide evenly, so that the float is a whole
\* number and the integer quotient is the value the code computes.
update_coverage(row) ==
    IF row.target_count > 0
    THEN [row EXCEPT !.completion_percentage =
                        (row.current_count * 100) \div row.target_count]
    ELSE row

\* A Prompt row as corpus_builder.save_to_database, CommunitySubmission.approve
\* or the translate route insert it; quality_score in hundredths.
NewPrompt(text, category, source_type, difficulty_level, quality_score) ==
    [text |-> text, category |-> category, source_type |-> source_type,
     difficulty_level |-> difficulty_level, quality_score |-> quality_score,
     usage_count |-> 0, status |-> "active"]

PromptKeys(d) == 1..Len(d.prompts)
TranslationRows(d) == BagToSet(d.translations)
TranslationsOf(d, user_id) ==
    {r \in TranslationRows(d) : r.user_id = user_id}

\* Translation.query.filter_by(user_id=user_id).count()
CountOf(d, rows) ==
    BagCardinality([r \in rows |-> CopiesIn(r, d.translations)])

\* -------------------------------------- SmartPromptSelector (smart_selector.py)
\* get_user_progress: the fields determine_strategy reads
get_user_progress(d, user_id) ==
    [total_completed |-> CountOf(d, TranslationsOf(d, user_id))]

\* get_completed_prompt_ids: the prompts the user has a translation of
get_completed_prompt_ids(d, user_id) ==
    {r.prompt_id : r \in TranslationsOf(d, user_id)}

\* CoverageAnalyzer.analyze_gaps: a dictionary with these five keys
\* (quality_gaps and source_imbalance are never read)
analyze_gaps(d) ==
    [total_translations |->
         CountOf(d, {r \in TranslationRows(d) : r.status = "approved"}),
     domain_coverage |-> [c \in Categories |->
         [current |-> d.coverage[c].current_count,
          target |-> d.coverage[c].target_count,
          completion |-> d.coverage[c].completion_percentage]],
     underrepresented_categories |->
         SelectSeq(CategoryOrder, LAMBDA c : d.coverage[c].completion_percentage < 50),
     quality_gaps |-> <<>>,
     source_imbalance |-> <<>>]

\* GapDetector.detect_critical_gaps: the field determine_strategy reads
detect_critical_gaps(d) ==
    [critical_gaps |->
         SelectSeq(CategoryOrder, LAMBDA c : d.coverage[c].completion_percentage < 25)]

\* "x or default": the default for None and for 0
Or(x, default) == IF x = None THEN default ELSE x

\* get_category_priority_score, lines 396-398, in hundredths:
\* max(0.1, (100 - completion) / 100)
priority_score(completion_percentage) ==
    Max(10, 100 - Or(completion_percentage, 0))

\* CoverageAnalyzer.get_category_priority_score, in hundredths: 0.8 for a
\* category that has no DomainCoverage row
get_category_priority_score(d, category) ==
    IF category \notin Categories THEN 80
    ELSE priority_score(d.coverage[category].completion_percentage)

\* An absent category (None, or the empty string of "?category=") is "":
\* both are false in "if preferred_category and ...".  Weights in tenths.
NoCategory == ""
onboarding_limit == 5

\* "preferred_category in coverage_gaps": coverage_gaps is the dictionary of
\* analyze_gaps, so this is a test on its keys.
preferred_in_coverage_gaps(coverage_gaps, preferred_category) ==
    preferred_category \in DOMAIN coverage_gaps

determine_strategy(coverage_gaps, user_progress, system_priorities, preferred_category) ==
    LET strategy ==
            [type |-> "balanced", priority_categories |-> <<>>,
             source_preference |-> "", difficulty_target |-> "basic",
             weight_distribution |-> [coverage_gaps |-> 4, user_progress |-> 3,
                                      quality_balance |-> 2, randomness |-> 1]]
    IN  IF system_priorities.critical_gaps # <<>>
        THEN [strategy EXCEPT
                !.type = "critical_gap_filling",
                !.priority_categories = system_priorities.critical_gaps,
                !.weight_distribution.coverage_gaps = 7,
                !.weight_distribution.user_progress = 2]
        ELSE IF /\ preferred_category # NoCategory
                /\ preferred_in_coverage_gaps(coverage_gaps, preferred_category)
        THEN [strategy EXCEPT
                !.type = "user_preference",
                !.priority_categories = <<preferred_category>>,
                !.weight_distribution.user_progress = 5]
        ELSE IF user_progress.total_completed < onboarding_limit
        THEN [strategy EXCEPT
                !.type = "onboarding",
                !.priority_categories = <<"greetings", "conversation", "family">>,
                !.source_preference = "corpus"]
        ELSE [strategy EXCEPT
                !.priority_categories =
                    SubSeq(coverage_gaps.underrepresented_categories, 1,
                           Min(3, Len(coverage_gaps.underrepresented_categories)))]

\* execute_selection_strategy, lines 112-120: the active prompts the user
\* has no translation of
base_query(d, user_id) ==
    {i \in PromptKeys(d) : /\ d.prompts[i].status = "active"
                           /\ i \notin get_completed_prompt_ids(d, user_id)}

\* Variant: the first query of select_for_critical_gaps left out, the rows of
\* the priority categories ordered by quality alone.
select_for_critical_gaps_by_quality(d, base, strategy) ==
    LET in_priority == {i \in base :
                           InSeq(d.prompts[i].category, strategy.priority_categories)}
    IN  {i \in in_priority : \A j \in in_priority :
                d.prompts[j].quality_score <= d.prompts[i].quality_score}

\* The selections return the set of prompts .first() may yield, empty for
\* None: ORDER BY random() makes every row of the best rank a possible first.
select_for_critical_gaps(d, base, strategy) ==
    LET in_priority == {i \in base :
                           InSeq(d.prompts[i].category, strategy.priority_categories)}
        trusted == {i \in in_priority :
                       /\ d.prompts[i].quality_score >= 80
                       /\ d.prompts[i].source_type \in {"corpus", "community"}}
    IN  IF trusted # {} THEN trusted
        ELSE {i \in in_priority : \A j \in in_priority :
                     d.prompts[j].quality_score <= d.prompts[i].quality_score}

\* ORDER BY difficulty_level ASC compares the strings
StringRank == [advanced |-> 1, basic |-> 2, intermediate |-> 3, medium |-> 4]

select_for_user_preference(d, base, strategy) ==
    LET preferred_category == strategy.priority_categories[1]
        rows == {i \in base : d.prompts[i].category = preferred_category}
        rank(i) == StringRank[d.prompts[i].difficulty_level]
        before(a, b) == \/ rank(a) < rank(b)
                        \/ /\ rank(a) = rank(b)
                           /\ d.prompts[a].quality_score > d.prompts[b].quality_score
    IN  {i \in rows : \A j \in rows : ~before(j, i)}

select_for_onboarding(d, base, strategy) ==
    {i \in base : /\ InSeq(d.prompts[i].category, strategy.priority_categories)
                  /\ d.prompts[i].difficulty_level = "basic"
                  /\ d.prompts[i].quality_score >= 85
                  /\ d.prompts[i].source_type \in {"corpus", "conversation"}}

\* calculate_candidate_score, in thousandths
calculate_candidate_score(d, i, strategy, weights) ==
    LET prompt == d.prompts[i]
        coverage_score == get_category_priority_score(d, prompt.category)
        quality_score == IF prompt.quality_score = 0 THEN 80 ELSE prompt.quality_score
        usage_penalty == Min(prompt.usage_count * 10, 50)
        source_bonus == IF strategy.source_preference = prompt.source_type THEN 200
                        ELSE IF prompt.source_type = "corpus" THEN 100
                        ELSE 0
    IN  Max(0, weights.coverage_gaps * coverage_score
               + weights.quality_balance * quality_score
               + weights.randomness * (100 - usage_penalty)
               + source_bonus)

\* Variant: the draw made among all the candidates, not the top fifth.
select_balanced_any(d, base, strategy) ==
    LET candidates == {i \in base : d.prompts[i].quality_score >= 70}
    IN  IF candidates = {} THEN base ELSE candidates

\* select_balanced: the candidates sorted by score, the top fifth (one at
\* least) kept, and one of those drawn with its score as weight.  Rows of
\* equal score may come in either order; base_query.first() has no ORDER BY.
select_balanced(d, base, strategy) ==
    LET weights == strategy.weight_distribution
        candidates == {i \in base : d.prompts[i].quality_score >= 70}
        score == [i \in candidates |-> calculate_candidate_score(d, i, strategy, weights)]
        size == Max(1, Cardinality(candidates) \div 5)
        tops == {top \in SUBSET candidates :
                    /\ Cardinality(top) = size
                    /\ \A i \in top, j \in candidates \ top : score[i] >= score[j]}
    IN  IF candidates = {} THEN base
        ELSE UNION {IF \A i \in top : score[i] = 0 THEN top
                    ELSE {i \in top : score[i] > 0} : top \in tops}

execute_selection_strategy(d, user_id, strategy) ==
    LET base == base_query(d, user_id)
    IN  IF strategy.type = "critical_gap_filling"
        THEN select_for_critical_gaps(d, base, strategy)
        ELSE IF strategy.type = "user_preference"
        THEN select_for_user_preference(d, base, strategy)
        ELSE IF strategy.type = "onboarding"
        THEN select_for_onboarding(d, base, strategy)
        ELSE select_balanced(d, base, strategy)

\* The strategy select_next_prompt settles on, lines 44-51
selection_strategy(d, user_id, preferred_category) ==
    determine_strategy(analyze_gaps(d), get_user_progress(d, user_id),
                       detect_critical_gaps(d), preferred_category)

\* record_prompt_selection: usage_count of the prompt handed out goes up
record_prompt_selection(d, prompt_id) ==
    [d EXCEPT !.prompts[prompt_id].usage_count = @ + 1]

\* select_next_prompt: the prompts it may return, {} when it returns None
select_next_prompt(d, user_id, preferred_category) ==
    execute_selection_strategy(d, user_id,
                               selection_strategy(d, user_id, preferred_category))

\* ------------------------------------------------------ the site's requests
\* save_translation (src/app/utils.py): a pending Translation row, and the
\* prompt's usage_count raised by the UPDATE
save_translation(d, prompt_id, user_id) ==
    [d EXCEPT !.translations =
                 @ (+) SetToBag({[prompt_id |-> prompt_id, user_id |-> user_id,
                                  status |-> "pending"]}),
              !.prompts = IF prompt_id \in PromptKeys(d)
                          THEN [@ EXCEPT ![prompt_id].usage_count = @ + 1]
                          ELSE @]

\* Prompt.query.filter_by(text=...).first(): 0 when there is no such row
PromptWithText(d, text) ==
    IF \E i \in PromptKeys(d) : d.prompts[i].text = text
    THEN CHOOSE i \in PromptKeys(d) :
            d.prompts[i].text = text /\ \A j \in 1..(i-1) : d.prompts[j].text # text
    ELSE 0

\* translate, lines 82-92: the served sentence gets a Prompt row if it has none
store_prompt(d, text) ==
    IF PromptWithText(d, text) # 0 THEN d
    ELSE [d EXCEPT !.prompts =
             Append(@, NewPrompt(text, "csv_dataset", "csv_dataset", "medium", 80))]

\* the text of the pool entry get_next_prompt returned
ServedText(f, id) == f.data.prompts[FirstWithId(f.data.prompts, id)].text

Frame == UNCHANGED <<Settings, handed, pc, loc>>
NoHolders == [id \in AllIds |-> {}]
\* last tells what the last request was and, for a request that handed out a
\* prompt, to whom, which prompt and under which key of the prompts table.
Request(op) == [op |-> op, user |-> "", res |-> None, key |-> 0]

\* GET /translate (main.py:72-113) by user u: get_next_prompt, then the Prompt
\* row; the form carries the row's key.
Site_translate_get(u) ==
    /\ calls[u] < MaxCalls
    /\ calls' = [calls EXCEPT ![u] = @ + 1]
    /\ \E indices_to_use \in ServeSamples(cache_file) :
         LET r == get_next_prompt(cache_file, indices_to_use, "ok", "ok")
         IN  /\ Write(r.file)
             /\ IF r.res = None
                THEN /\ UNCHANGED <<db, holders>>
                     /\ last' = [op |-> "translate", user |-> u, res |-> None, key |-> 0]
                ELSE LET d == store_prompt(db, ServedText(r.file, r.res))
                     IN  /\ db' = d
                         /\ holders' = [holders EXCEPT ![r.res] = @ \cup {u}]
                         /\ last' = [op |-> "translate", user |-> u, res |-> r.res,
                                     key |-> PromptWithText(d, ServedText(r.file, r.res))]
    /\ Frame

\* POST /translate (main.py:120-146) by the user who was just shown the form:
\* a translation that passes the checks is saved as pending.
Site_translate_post(u) ==
    /\ last.op = "translate" /\ last.user = u /\ last.res # None
    /\ db' = save_translation(db, last.key, u)
    /\ last' = Request("save_translation")
    /\ Quiet /\ Frame /\ UNCHANGED <<calls, holders>>

\* POST /skip-prompt/<prompt_id> (main.py:294-315), by any user
Site_skip_prompt ==
    \E u \in Users, prompt_id \in PromptIds :
        /\ Write(return_prompt_to_pool(cache_file, prompt_id, "ok").file)
        /\ holders' = [holders EXCEPT ![prompt_id] = {}]
        /\ last' = [op |-> "skip_prompt", user |-> u, res |-> prompt_id, key |-> 0]
        /\ Frame /\ UNCHANGED <<calls, db>>

\* moderate_translation, action "approve" (admin.py:104-108): the status of
\* the translation is set and committed, and nothing else
approve(d, t) ==
    [d EXCEPT !.translations =
        (@ (-) SetToBag({t})) (+) SetToBag({[t EXCEPT !.status = "approved"]})]

\* POST /admin/translation/<id>/moderate with action "approve"
Site_moderate_approve ==
    \E t \in TranslationRows(db) :
        /\ t.status = "pending"
        /\ db' = approve(db, t)
        /\ LET id == _generate_prompt_id(db.prompts[t.prompt_id].text)
           IN  holders' = [holders EXCEPT ![id] = @ \ {t.user_id}]
        /\ last' = Request("approve")
        /\ Quiet /\ Frame /\ UNCHANGED calls

\* ... action "reject" (admin.py:109-130): the prompt's id is recomputed from
\* its text, the prompt goes back to the pool, the translation is deleted
\* [db, file, flash]; w is the outcome of the save inside
\* return_prompt_to_pool, whose result the route does not look at, and
\* commit that of db.session.commit() ("fails": it raises, the except branch
\* rolls the session back and flashes the error).
CommitOutcomes == {"ok", "fails"}

moderate_reject(d, f, t, w, commit) ==
    LET prompt_id == _generate_prompt_id(d.prompts[t.prompt_id].text)
        r == return_prompt_to_pool(f, prompt_id, w)
    IN  IF commit = "ok"
        THEN [db |-> [d EXCEPT !.translations = @ (-) SetToBag({t})],
              file |-> r.file, flash |-> "success"]
        ELSE [db |-> d, file |-> r.file, flash |-> "error"]

Site_moderate_reject ==
    \E t \in TranslationRows(db) :
        LET prompt_id == _generate_prompt_id(db.prompts[t.prompt_id].text)
            r == moderate_reject(db, cache_file, t, "ok", "ok")
        IN  /\ Write(r.file)
            /\ db' = r.db
            /\ holders' = [holders EXCEPT ![prompt_id] = {}]
            /\ last' = Request("reject")
            /\ Frame /\ UNCHANGED calls

\* CSVPromptManager.reset_cache
Site_reset_cache ==
    /\ Write(reset_cache(cache_file, "ok").file)
    /\ holders' = NoHolders
    /\ last' = Request("reset_cache")
    /\ Frame /\ UNCHANGED <<calls, db>>

NextSite ==
    \/ \E u \in Users : Site_translate_get(u)
    \/ \E u \in Users : Site_translate_post(u)
    \/ Site_skip_prompt
    \/ Site_moderate_approve
    \/ Site_moderate_reject
    \/ Site_reset_cache

\* The pool settings do not matter to these requests: the smallest are taken.
InitSite ==
    /\ db = initial_db
    /\ csv_rows \in Datasets
    /\ csv_file = SourceOf(csv_rows)
    /\ min_cache_size = 1
    /\ batch_size = 1
    /\ cache_file = NoFile
    /\ last = Request("none")
    /\ handed = [id \in AllIds |-> 0]
    /\ ever_used = {}
    /\ pc = [p \in Procs |-> "idle"]
    /\ calls = [p \in Procs |-> 0]
    /\ loc = [p \in Procs |-> IdleLoc]
    /\ holders = NoHolders

SpecSite == InitSite /\ [][NextSite]_vars

\* ------------------------------------------- the selector over a filled database
\* corpus_builder.save_to_database: the sentences become Prompt rows
save_to_database(d, sentences) == [d EXCEPT !.prompts = @ \o sentences]

\* CommunityService._update_domain_coverage with action 'approved', for a
\* category that has its DomainCoverage row
_update_domain_coverage(d, category) ==
    [d EXCEPT !.coverage[category] =
                 update_coverage([@ EXCEPT !.current_count = @ + 1])]

\* CommunityService._approve_submission: CommunitySubmission.approve adds the
\* Prompt row with source_type 'community', then the coverage is updated
_approve_submission(d, submission) ==
    _update_domain_coverage(
        [d EXCEPT !.prompts = Append(@, [submission EXCEPT !.source_type = "community"])],
        submission.category)

\* The sentences that come into the prompts table, in the order they come;
\* the text of each is its place in this list.  Corpus and llm sentences are
\* saved by save_to_database, community ones by the approval of a submission.
Catalogue ==
    << NewPrompt(1, "greetings", "corpus", "basic", 90),
       NewPrompt(2, "greetings", "community", "advanced", 80),
       NewPrompt(3, "health", "community", "basic", 70),
       NewPrompt(4, "health", "community", "advanced", 85),
       NewPrompt(5, "health", "llm", "advanced", 90) >>

Insert(d, row) ==
    IF row.source_type = "community" THEN _approve_submission(d, row)
    ELSE save_to_database(d, <<row>>)

\* the database after the sentences numbered in S have come in
RECURSIVE Populate(_, _, _)
Populate(d, S, i) ==
    IF i > Len(Catalogue) THEN d
    ELSE Populate(IF i \in S THEN Insert(d, Catalogue[i]) ELSE d, S, i + 1)

\* ... and after user_id has posted n translations of the prompt
RECURSIVE Submitted(_, _, _, _)
Submitted(d, prompt_id, user_id, n) ==
    IF n = 0 THEN d
    ELSE Submitted(save_translation(d, prompt_id, user_id), prompt_id, user_id, n - 1)

\* The user whose earlier translations the initial states may hold
Regular == "r1"

InitSelect ==
    /\ \E S \in SUBSET (1..Len(Catalogue)), n \in {0, onboarding_limit} :
          /\ n > 0 => S # {}
          /\ db = Submitted(Populate(initial_db, S, 1), 1, Regular, n)
    /\ csv_rows = <<1>>
    /\ csv_file = SourceOf(csv_rows)
    /\ min_cache_size = 1
    /\ batch_size = 1
    /\ cache_file = NoFile
    /\ last = Request("none")
    /\ handed = [id \in AllIds |-> 0]
    /\ ever_used = {}
    /\ pc = [p \in Procs |-> "idle"]
    /\ calls = [p \in Procs |-> 0]
    /\ loc = [p \in Procs |-> IdleLoc]
    /\ holders = NoHolders

PreferredCategories == {NoCategory, "domain_coverage"} \cup Categories
Rest == UNCHANGED <<Settings, cache_file, ever_used, handed, pc, loc, holders>>

\* GET /api/next-prompt?category=... (main.py:226-258) by user u:
\* select_next_prompt, which records the selection of the prompt it returns
Select_api_next_prompt(u, preferred_category) ==
    /\ calls[u] < MaxCalls
    /\ calls' = [calls EXCEPT ![u] = @ + 1]
    /\ LET prompts == select_next_prompt(db, u, preferred_category)
       IN  IF prompts = {}
           THEN /\ UNCHANGED db
                /\ last' = [op |-> "select_next_prompt", user |-> u,
                            res |-> None, key |-> 0]
           ELSE \E prompt_id \in prompts :
                   /\ db' = record_prompt_selection(db, prompt_id)
                   /\ last' = [op |-> "select_next_prompt", user |-> u,
                               res |-> prompt_id, key |-> prompt_id]
    /\ Rest

\* POST /translate with the prompt_id the user was given
Select_translate_post(u) ==
    /\ last.op = "select_next_prompt" /\ last.user = u /\ last.res # None
    /\ db' = save_translation(db, last.key, u)
    /\ last' = Request("save_translation")
    /\ Rest /\ UNCHANGED calls

\* POST /admin/translation/<id>/moderate with action "approve"
Select_moderate_approve ==
    \E t \in TranslationRows(db) :
        /\ t.status = "pending"
        /\ db' = approve(db, t)
        /\ last' = Request("approve")
        /\ Rest /\ UNCHANGED calls

\* review_submission with action 'approve': the next community sentence
Select_review_submission ==
    \E i \in 1..Len(Catalogue) :
        /\ Catalogue[i].source_type = "community"
        /\ \A k \in PromptKeys(db) : db.prompts[k].text < i
        /\ db' = _approve_submission(db, Catalogue[i])
        /\ last' = Request("approve_submission")
        /\ Rest /\ UNCHANGED calls

NextSelect ==
    \/ \E u \in Users, preferred_category \in PreferredCategories :
          Select_api_next_prompt(u, preferred_category)
    \/ \E u \in Users : Select_translate_post(u)
    \/ Select_moderate_approve
    \/ Select_review_submission

SpecSelect == InitSelect /\ [][NextSelect]_vars

\* --------------------------------------------- the scoring functions applied
MaxCount == 2         \* largest current_count of a category explored
MaxTable == 12        \* longest prompts table the scores are taken over
MaxCompletion == 120  \* largest completion percentage the priority is taken of

\* The rows the tables below are made of, over and over: every source type,
\* categories with and without a DomainCoverage row, a row without a quality
\* score, rows that have been handed out before.
ScoreKinds ==
    << NewPrompt(1, "greetings", "corpus", "basic", 90),
       [NewPrompt(2, "health", "llm", "advanced", 70) EXCEPT !.usage_count = 3],
       NewPrompt(3, "csv_dataset", "csv_dataset", "medium", 80),
       NewPrompt(4, "greetings", "llm", "basic", None),
       [NewPrompt(5, "health", "community", "intermediate", 85) EXCEPT !.usage_count = 7] >>

\* a table of n rows; a row met again further down has been handed out once
\* more each time
ScoreTable(n, shift) ==
    [i \in 1..n |->
        [ScoreKinds[((i + shift) % Len(ScoreKinds)) + 1]
            EXCEPT !.usage_count = @ + ((i - 1) \div Len(ScoreKinds))]]

\* coverage rows after the given numbers of approvals
ScoreCoverage(counts) ==
    [c \in Categories |->
        update_coverage([initial_db.coverage[c] EXCEPT !.current_count = counts[c]])]

\* The strategy of a user past onboarding when no category is critical and
\* none is asked for: the one select_balanced is called with.
balanced_strategy(d) ==
    determine_strategy(analyze_gaps(d), [total_completed |-> onboarding_limit],
                       [critical_gaps |-> <<>>], NoCategory)

InitScore ==
    /\ \E n \in 0..MaxTable, shift \in 0..(Len(ScoreKinds) - 1),
          counts \in [Categories -> 0..MaxCount] :
          db = [initial_db EXCEPT !.prompts = ScoreTable(n, shift),
                                  !.coverage = ScoreCoverage(counts)]
    /\ csv_rows = <<1>>
    /\ csv_file = SourceOf(csv_rows)
    /\ min_cache_size = 1
    /\ batch_size = 1
    /\ cache_file = NoFile
    /\ last = Request("none")
    /\ handed = [id \in AllIds |-> 0]
    /\ ever_used = {}
    /\ pc = [p \in Procs |-> "idle"]
    /\ calls = [p \in Procs |-> 0]
    /\ loc = [p \in Procs |-> IdleLoc]
    /\ holders = NoHolders

Still == UNCHANGED <<Settings, cache_file, ever_used, handed, pc, calls, loc, holders, db>>

\* get_category_priority_score(category)
Score_category_priority ==
    \E category \in Categories \cup {"csv_dataset"} :
        /\ last' = [op |-> "get_category_priority_score", user |-> category,
                    res |-> get_category_priority_score(db, category), key |-> 0]
        /\ Still

\* calculate_candidate_score(prompt, strategy, weights) as select_balanced calls it
Score_candidate ==
    \E i \in PromptKeys(db) :
        /\ last' = [op |-> "calculate_candidate_score", user |-> "",
                    res |-> calculate_candidate_score(db, i, balanced_strategy(db),
                                balanced_strategy(db).weight_distribution),
                    key |-> i]
        /\ Still

\* select_balanced(base_query, strategy) for user u
Score_select_balanced(u) ==
    /\ \E i \in select_balanced(db, base_query(db, u), balanced_strategy(db)) :
          last' = [op |-> "select_balanced", user |-> u, res |-> i, key |-> i]
    /\ Still

NextScore ==
    \/ Score_category_priority
    \/ Score_candidate
    \/ \E u \in Users : Score_select_balanced(u)

SpecScore == InitScore /\ [][NextScore]_vars

\* ------------------------------------------- load_cache on files of any content
\* PromptCacheManager (src/app/services/prompt_cache.py) reads the same file
\* with its own default_structure (the date of the API calls is left out
\* with the timestamps).
PromptCacheManager_default_structure ==
    [prompts |-> <<>>, used_prompts |-> <<>>,
     metadata |-> [total_generated |-> 0, total_used |-> 0, api_calls_today |-> 0]]

PromptCacheManager_create_default_cache == PromptCacheManager_default_structure

PromptCacheManager_load_cache(f) ==
    IF f.status = "ok"
    THEN merge_defaults(f.data, PromptCacheManager_default_structure)
    ELSE PromptCacheManager_create_default_cache

\* The files found on disk: none, one that is not JSON ("corrupt"), JSON that
\* is no dictionary of dictionaries ("malformed": the merge raises inside the
\* try block), and JSON dictionaries with any of the keys either manager
\* writes, each present key with a value that is not its default.
SampleData ==
    [prompts |-> <<[_create_prompt_object(1, 0) EXCEPT !.usage_count = 1]>>,
     used_prompts |-> <<_generate_prompt_id(1)>>,
     metadata |-> [total_generated |-> 2, total_used |-> 1, csv_total_rows |-> 3,
                   csv_used_indices |-> {0, 1}, api_calls_today |-> 4]]

Restrict(fn, keys) == [k \in keys |-> fn[k]]

PartialData ==
    {Restrict(SampleData, keys) : keys \in SUBSET {"prompts", "used_prompts"}}
    \cup {[key \in keys \cup {"metadata"} |->
              IF key = "metadata" THEN Restrict(SampleData.metadata, meta_keys)
              ELSE SampleData[key]] :
            keys \in SUBSET {"prompts", "used_prompts"},
            meta_keys \in SUBSET DOMAIN SampleData.metadata}

LoadFiles ==
    {[status |-> st, data |-> _create_default_cache] : st \in {"missing", "corrupt", "malformed"}}
    \cup {[status |-> "ok", data |-> d] : d \in PartialData}

InitLoad ==
    /\ csv_rows \in {<<1>>, ScenarioA}
    /\ csv_file = SourceOf(csv_rows)
    /\ min_cache_size = 1
    /\ batch_size = 1
    /\ cache_file \in LoadFiles
    /\ db = initial_db
    /\ last = NoCall
    /\ handed = [id \in AllIds |-> 0]
    /\ ever_used = {}
    /\ pc = [p \in Procs |-> "idle"]
    /\ calls = [p \in Procs |-> 0]
    /\ loc = [p \in Procs |-> IdleLoc]
    /\ holders = [id \in AllIds |-> {}]

\* a fresh CSVPromptManager loads the file
Load_CSVPromptManager ==
    /\ last' = [op |-> "CSVPromptManager.load_cache", res |-> load_cache(cache_file, {})]
    /\ UNCHANGED <<cache_file, ever_used, handed, Config, Requests>>

\* a PromptCacheManager loads the file
Load_PromptCacheManager ==
    /\ last' = [op |-> "PromptCacheManager.load_cache",
                res |-> PromptCacheManager_load_cache(cache_file)]
    /\ UNCHANGED <<cache_file, ever_used, handed, Config, Requests>>

NextLoad ==
    \/ Load_CSVPromptManager
    \/ Load_PromptCacheManager

SpecLoad == InitLoad /\ [][NextLoad]_vars

\* C13: load_cache always returns a dictionary with every key of the default
\* structure: the empty default state (no prompts, no used prompts, both
\* totals 0, no used indices) when the file is missing or cannot be read as
\* a cache, and otherwise the file's dictionary with each missing key at its
\* default and each present key as the file has it.
WellFormed(cache, default) ==
    /\ DOMAIN default \subseteq DOMAIN cache
    /\ DOMAIN default.metadata \subseteq DOMAIN cache.metadata

EmptyState(cache) ==
    /\ cache.prompts = <<>>
    /\ cache.used_prompts = <<>>
    /\ cache.metadata.total_generated = 0
    /\ cache.metadata.total_used = 0

Filled(cache, data, default) ==
    /\ \A key \in DOMAIN default \ {"metadata"} :
          cache[key] = IF key \in DOMAIN data THEN data[key] ELSE default[key]
    /\ \A key \in DOMAIN data \ {"metadata"} : cache[key] = data[key]
    /\ \A meta_key \in DOMAIN default.metadata :
          cache.metadata[meta_key] =
              IF "metadata" \in DOMAIN data /\ meta_key \in DOMAIN data.metadata
              THEN data.metadata[meta_key] ELSE default.metadata[meta_key]
    /\ "metadata" \in DOMAIN data =>
          \A meta_key \in DOMAIN data.metadata :
              cache.metadata[meta_key] = data.metadata[meta_key]

C13_LoadDefaults ==
    LET l == load_cache(cache_file, {})
        c == PromptCacheManager_load_cache(cache_file)
    IN  /\ WellFormed(l.cache, default_structure)
        /\ WellFormed(c, PromptCacheManager_default_structure)
        /\ cache_file.status # "ok" =>
              /\ EmptyState(l.cache) /\ EmptyState(c)
              /\ l.cache.metadata.csv_used_indices = {}
              /\ l.used = {}
        /\ cache_file.status = "ok" =>
              /\ Filled(l.cache, cache_file.data, default_structure)
              /\ Filled(c, cache_file.data, PromptCacheManager_default_structure)
              /\ l.used = l.cache.metadata.csv_used_indices

\* A file that has some metadata but lacks keys of each kind has been loaded
\* by the CSV manager.
C13_Witness ==
    /\ cache_file.status = "ok"
    /\ "metadata" \in DOMAIN cache_file.data
    /\ "prompts" \notin DOMAIN cache_file.data
    /\ DOMAIN cache_file.data.metadata = {"total_used"}
    /\ last.op = "CSVPromptManager.load_cache"
    /\ last.res.cache.metadata.total_used = 1
    /\ last.res.cache.prompts = <<>>

\* ------------------------------------------------------------ site claims
Accepted(d, key) ==
    \E t \in TranslationRows(d) : t.prompt_id = key /\ t.status = "approved"
AcceptedFrom(d, key, user_id) ==
    \E t \in TranslationRows(d) :
        t.prompt_id = key /\ t.user_id = user_id /\ t.status = "approved"
\* an entry with this text can be picked by get_next_prompt
Available(f, text) ==
    \E i \in Servable(Content(f)) : Content(f).prompts[i].text = text
Holding(u) == {id \in AllIds : u \in holders[id]}

\* C14: no user is handed a prompt the user has an approved translation of,
\* neither by get_next_prompt (GET /translate) nor by select_next_prompt.
C14_NoReServeToTranslator ==
    /\ (last.op = "translate" /\ last.res # None) =>
            ~AcceptedFrom(db, last.key, last.user)
    /\ \A u \in Users, preferred_category \in PreferredCategories :
         \A key \in select_next_prompt(db, u, preferred_category) :
            ~AcceptedFrom(db, key, u)

\* C15: a prompt with an approved translation that is not available stays
\* unavailable, whatever request comes next (skip, rejection of another
\* translation of it, reset_cache).
C15_ConsumeTerminal ==
    [][\A key \in PromptKeys(db) :
          (/\ Accepted(db, key) /\ Accepted(db', key)
           /\ ~Available(cache_file, db.prompts[key].text))
             => ~Available(cache_file', db.prompts[key].text)]_vars

\* C16: a user who was served an entry that has been neither returned nor
\* consumed gets that same entry from the next GET /translate, and no
\* further entry is marked served.
C16_CurrentPrompt ==
    [][\A u \in Users :
          (Site_translate_get(u) /\ Holding(u) # {}) =>
             /\ last'.res \in Holding(u)
             /\ Persisted'.used_prompts = Persisted.used_prompts]_vars

\* ------------------------------------------------------- selector claims
CriticalCategories(d) ==
    {c \in Categories : d.coverage[c].completion_percentage < 25}
UnderCovered(d, c) ==
    c \in Categories /\ d.coverage[c].completion_percentage < 50
Eligible(d, user_id) ==
    {i \in PromptKeys(d) : /\ d.prompts[i].status = "active"
                           /\ \A r \in TranslationsOf(d, user_id) : r.prompt_id # i}
HighTrust(d, i) ==
    /\ d.prompts[i].quality_score >= 80
    /\ d.prompts[i].source_type \in {"corpus", "community"}
PrecedenceType(d, user_id, preferred_category) ==
    IF CriticalCategories(d) # {} THEN "critical_gap_filling"
    ELSE IF preferred_category # NoCategory /\ UnderCovered(d, preferred_category)
    THEN "user_preference"
    ELSE IF get_user_progress(d, user_id).total_completed < onboarding_limit
    THEN "onboarding"
    ELSE "balanced"

\* C17: the strategy select_next_prompt settles on follows the precedence
\* critical gap (some category below 25%), then preferred category (one is
\* given and it is under-covered), then onboarding (fewer than 5 completed
\* translations), then balanced.
C17_StrategyPrecedence ==
    \A u \in Users, preferred_category \in PreferredCategories :
        selection_strategy(db, u, preferred_category).type
            = PrecedenceType(db, u, preferred_category)

\* C18: while some category is below 25%, a prompt returned by
\* select_next_prompt is of a critical-gap category, and it has quality >= 0.8
\* and a corpus or community source whenever an eligible prompt of such a
\* category has.
C18_CriticalGapSelection ==
    [][\A u \in Users, preferred_category \in PreferredCategories :
          (/\ Select_api_next_prompt(u, preferred_category)
           /\ CriticalCategories(db) # {}
           /\ last'.res # None)
             => /\ db.prompts[last'.key].category \in CriticalCategories(db)
                /\ (\E i \in Eligible(db, u) :
                       /\ db.prompts[i].category \in CriticalCategories(db)
                       /\ HighTrust(db, i))
                      => HighTrust(db, last'.key)]_vars

\* A user was handed a high-trust prompt of a critical-gap category although
\* an eligible prompt of such a category with a higher quality score and a
\* source outside the trusted ones was there to take.
C18_Witness ==
    /\ last.op = "select_next_prompt" /\ last.res # None
    /\ db.prompts[last.key].category \in CriticalCategories(db)
    /\ HighTrust(db, last.key)
    /\ \E j \in Eligible(db, last.user) :
          /\ db.prompts[j].category \in CriticalCategories(db)
          /\ ~HighTrust(db, j)
          /\ db.prompts[j].quality_score > db.prompts[last.key].quality_score

\* C19: a user none of whose translations has been accepted is only handed
\* prompts of difficulty basic, quality >= 0.85 and a category of the
\* onboarding list, whatever category is asked for and whatever the coverage.
C19_OnboardingOnly ==
    [][\A u \in Users, preferred_category \in PreferredCategories :
          (/\ Select_api_next_prompt(u, preferred_category)
           /\ \A r \in TranslationsOf(db, u) : r.status # "approved"
           /\ last'.res # None)
             => /\ db.prompts[last'.key].difficulty_level = "basic"
                /\ db.prompts[last'.key].quality_score >= 85
                /\ db.prompts[last'.key].category
                       \in {"greetings", "conversation", "family"}]_vars

ApprovedIn(d, c) ==
    CountOf(d, {r \in TranslationRows(d) :
                   r.status = "approved" /\ d.prompts[r.prompt_id].category = c})

\* C20: when the approved translations of a category's prompts grow by one,
\* the category's current_count grows by one and its completion_percentage
\* is current_count / target_count * 100.
C20_ApprovalCounted ==
    [][\A c \in Categories :
          ApprovedIn(db', c) = ApprovedIn(db, c) + 1
             => /\ db'.coverage[c].current_count = db.coverage[c].current_count + 1
                /\ db'.coverage[c].completion_percentage * db'.coverage[c].target_count
                       = db'.coverage[c].current_count * 100]_vars

\* ---------------------------------------------------------- dataset claims
\* the file is missing or unreadable, or none of its sentences is kept
NoSentences(source) ==
    source.status # "ok" \/ \A i \in 1..Len(source.rows) : TextLen(source.rows[i]) <= 10

\* C21: on a dataset file that is missing, unreadable or left empty by the
\* filter, _load_csv_data ends in an exception, and neither get_next_prompt
\* nor refill_cache returns its ordinary None or False.
C21_DataSourceError ==
    NoSentences(csv_file) =>
        /\ _load_csv_data(csv_file).raised
        /\ last.op = "get_next_prompt" => last.res # None
        /\ last.op = "refill_cache" => last.res # 0

\* C22: a rejection that succeeds leaves no record of the translation and
\* the pool entry of its prompt unserved, with total_used and the entry's
\* usage_count one lower if it was served; a rejection that fails leaves the
\* database and the cache file as they were.
C22_RejectAtomic ==
    \A t \in TranslationRows(db), w \in SaveOutcomes, commit \in CommitOutcomes :
        LET id == _generate_prompt_id(db.prompts[t.prompt_id].text)
            w_ == IF id \in UsedIds(Persisted) THEN w ELSE "ok"
            r == moderate_reject(db, cache_file, t, w_, commit)
            pre == Persisted
            post == Content(r.file)
        IN  /\ r.flash = "success" =>
                  /\ CopiesIn(t, r.db.translations) = CopiesIn(t, db.translations) - 1
                  /\ id \notin UsedIds(post)
                  /\ id \in UsedIds(pre) =>
                        /\ post.metadata.total_used = pre.metadata.total_used - 1
                        /\ UsageCount(post, id) = Max(0, UsageCount(pre, id) - 1)
            /\ r.flash = "error" => (r.db = db /\ r.file = cache_file)

\* ------------------------------------------------------------- pool order
\* the entries in the order of the list, without their counters
Admitted(cache) ==
    [i \in 1..Len(cache.prompts) |->
        <<cache.prompts[i].id, cache.prompts[i].csv_index>>]

\* C23: every call leaves the entries it found in their places and puts new
\* ones behind them; get_next_prompt returns the first entry of the list
\* that is not served; an id that return_prompt_to_pool takes out of
\* used_prompts is available again at the place its entry had.
C23_Fifo ==
    [][/\ Len(Persisted'.prompts) >= Len(Persisted.prompts)
       /\ SubSeq(Admitted(Persisted'), 1, Len(Persisted.prompts)) = Admitted(Persisted)
       /\ (Call_get_next_prompt /\ last'.res # None) =>
             last'.res = FirstServable([Persisted' EXCEPT
                                           !.used_prompts = Persisted.used_prompts])
       /\ \A id \in UsedIds(Persisted) \ UsedIds(Persisted') :
             (Call_return_prompt_to_pool /\ FirstWithId(Persisted.prompts, id) # 0) =>
                /\ FirstWithId(Persisted'.prompts, id) = FirstWithId(Persisted.prompts, id)
                /\ FirstWithId(Persisted'.prompts, id) \in Servable(Persisted')]_vars

\* get_next_prompt has just served the first entry of the list again while
\* an entry admitted after it is still served: the first entry had come back
\* to its place.
C23_Witness ==
    /\ last.op = "get_next_prompt"
    /\ Len(Persisted.prompts) >= 2
    /\ last.res = Persisted.prompts[1].id
    /\ Persisted.prompts[2].id # last.res
    /\ Persisted.prompts[2].id \in UsedIds(Persisted)
    /\ Persisted.used_prompts[Len(Persisted.used_prompts)] = last.res
    /\ Len(Persisted.used_prompts) = 2

\* --------------------------------------------------- selection order claims
\* basic before intermediate before advanced ('medium', the level of the
\* sentences of the dataset, beside intermediate)
DifficultyRank == [basic |-> 1, intermediate |-> 2, medium |-> 2, advanced |-> 3]

\* prompt a comes before prompt b: easier, or as difficult and of higher quality
EasierOrBetter(d, a, b) ==
    \/ DifficultyRank[d.prompts[a].difficulty_level]
           < DifficultyRank[d.prompts[b].difficulty_level]
    \/ /\ d.prompts[a].difficulty_level = d.prompts[b].difficulty_level
       /\ d.prompts[a].quality_score > d.prompts[b].quality_score

FirstOfCategory(d, user_id, category, i) ==
    /\ d.prompts[i].category = category
    /\ \A j \in Eligible(d, user_id) :
          d.prompts[j].category = category => ~EasierOrBetter(d, j, i)

\* C24: with no critical gap and a preferred category that is under-covered,
\* the prompt select_next_prompt returns is of the preferred category and no
\* eligible prompt of that category is easier, or as difficult and of higher
\* quality; and select_for_user_preference on a category returns such a
\* prompt of it.
C24_PreferredCategoryOrder ==
    [][/\ \A u \in Users, preferred_category \in PreferredCategories :
            (/\ Select_api_next_prompt(u, preferred_category)
             /\ CriticalCategories(db) = {}
             /\ preferred_category # NoCategory
             /\ UnderCovered(db, preferred_category)
             /\ last'.res # None)
               => FirstOfCategory(db, u, preferred_category, last'.key)
       /\ \A u \in Users, category \in Categories :
            \A i \in select_for_user_preference(db, base_query(db, u),
                        [priority_categories |-> <<category>>]) :
               FirstOfCategory(db, u, category, i)]_vars

\* ------------------------------------------------------------ score claims
\* clamp(x, lo, hi)
Clamp(x, lo, hi) == Max(lo, Min(hi, x))

\* the completion percentage of a category, None (unset) when it has no
\* DomainCoverage row
CompletionOf(d, category) ==
    IF category \in Categories THEN d.coverage[category].completion_percentage ELSE None

\* C25: for every category, get_category_priority_score is
\* clamp((100 - completion) / 100, 0.1, 1.0), an unset completion counting as
\* 0; the score lies in [0.1, 1.0] and does not grow with the completion.
C25_PriorityClamp ==
    /\ \A category \in Categories \cup {"csv_dataset"} :
          /\ get_category_priority_score(db, category)
                 = Clamp(100 - Or(CompletionOf(db, category), 0), 10, 100)
          /\ get_category_priority_score(db, category) \in 10..100
    /\ \A x \in 0..MaxCompletion :
          /\ priority_score(x) = Clamp(100 - x, 10, 100)
          /\ priority_score(x) >= priority_score(x + 1)

\* The formula of the candidate score under the weights of the balanced
\* strategy (0.4, 0.2, 0.1; here in tenths, of values in hundredths): what it
\* is for a prompt of the given priority, quality and usage count.
WeightedScore(priority, quality, usage_count) ==
    4 * priority + 2 * quality + 1 * (100 - Min(usage_count * 10, 50))

\* C26: the score calculate_candidate_score gives a prompt under the default
\* weights is 0.4 * categoryPriority + 0.2 * qualityScore
\* + 0.1 * (1 - min(usage_count * 0.1, 0.5)), whatever the prompt's source
\* type and whatever else is in its row.
C26_ScoreFormula ==
    \A i \in PromptKeys(db) :
        calculate_candidate_score(db, i, balanced_strategy(db),
                                  balanced_strategy(db).weight_distribution)
            = WeightedScore(get_category_priority_score(db, db.prompts[i].category),
                            db.prompts[i].quality_score,
                            db.prompts[i].usage_count)

\* The candidates select_balanced scores for user u, and the score of each.
ScoredCandidates(u) == {i \in base_query(db, u) : db.prompts[i].quality_score >= 70}
ScoreOf(i) ==
    calculate_candidate_score(db, i, balanced_strategy(db),
                              balanced_strategy(db).weight_distribution)

\* Candidate i is one of the max(1, n div 5) highest-scoring of user u: fewer
\* than that many candidates score strictly more.
TopRanked(u, i) ==
    /\ i \in ScoredCandidates(u)
    /\ Cardinality({j \in ScoredCandidates(u) : ScoreOf(j) > ScoreOf(i)})
           < Max(1, Cardinality(ScoredCandidates(u)) \div 5)

\* C27: over n scored candidates, whatever the draw, select_balanced returns
\* one of the max(1, floor(n / 5)) highest-scoring candidates, and each of
\* those that has a positive score is returned by some draw.
C27_TopFifth ==
    \A u \in Users :
        ScoredCandidates(u) # {} =>
            LET returned == select_balanced(db, base_query(db, u), balanced_strategy(db))
            IN  /\ \A i \in returned : TopRanked(u, i)
                /\ \A i \in ScoredCandidates(u) :
                      TopRanked(u, i) /\ ScoreOf(i) > 0 => i \in returned

\* select_balanced has returned, of ten candidates or more, one that is not
\* the best of them.
C27_Witness ==
    /\ last.op = "select_balanced"
    /\ Cardinality(ScoredCandidates(last.user)) >= 10
    /\ last.res \in ScoredCandidates(last.user)
    /\ \E j \in ScoredCandidates(last.user) : ScoreOf(j) > ScoreOf(last.res)

\* The ids of the pool entries of file f that are available and are not p.
OtherAvailable(f, p) ==
    IF f.status = "ok"
    THEN {e.id : e \in Range(available_prompts(f.data))} \ {p}
    ELSE {}

\* C28: when a user skips the prompt p that GET /translate has just served
\* them and another entry of the pool is available, the next GET /translate
\* serves a prompt other than p.
C28_SkipYieldsNew ==
    [][(/\ last.op = "translate" /\ last.res # None
        /\ last'.op = "skip_prompt"
        /\ last'.user = last.user /\ last'.res = last.res
        /\ OtherAvailable(cache_file', last.res) # {})
       => \A indices_to_use \in ServeSamples(cache_file') :
             get_next_prompt(cache_file', indices_to_use, "ok", "ok").res # last.res]_vars

\* the number of rows of the dataset that hold the sentence of row i
Occurrences(i) == Cardinality({j \in 1..Len(csv_rows) : csv_rows[j] = csv_rows[i]})

\* C29: on a fresh cache and a dataset of N sentences, whatever
\* min_cache_size and batch_size, each of the first N get_next_prompt calls
\* returns a prompt, call N + 1 returns None, and after N calls every row of
\* the dataset has been served once (a sentence as often as it has rows) and
\* no entry of the pool is left to serve.
C29_DrainComplete ==
    LET n == calls["r1"]
        N == Len(csv_rows)
    IN  /\ n \in 1..N => last.res # None
        /\ n = N + 1 => last.res = None
        /\ n >= N =>
              /\ \A i \in 1..N :
                    handed[_generate_prompt_id(csv_rows[i])] = Min(2, Occurrences(i))
              /\ Len(Persisted.prompts) = N
              /\ available_prompts(Persisted) = <<>>

\* C30: select_next_prompt hands a user a prompt whenever there is an active
\* prompt the user has no translation of, and returns None only when there
\* is none, whichever strategy determine_strategy settles on.
C30_PromptWheneverEligible ==
    [][\A u \in Users, preferred_category \in PreferredCategories :
          Select_api_next_prompt(u, preferred_category)
             => (last'.res = None <=> base_query(db, u) = {})]_vars

====
